---- MODULE Spec2Model ----
(***************************************************************************)
(* A model of action-network-to-ical (src/src/index.ts): a Hono app whose  *)
(* /events handler validates the requested feeds against API_KEYS, fetches  *)
(* every feed's paginated event list concurrently, and builds one iCal      *)
(* calendar from the flattened events.                                      *)
(*                                                                          *)
(* JavaScript runs every synchronous stretch of code to completion, so an   *)
(* action is one such stretch: the handler up to its first await, or the    *)
(* arrival of one upstream response together with the promise reactions it  *)
(* triggers.                                                                *)
(*                                                                          *)
(* Strings the program takes apart (identifiers, names) are sequences of    *)
(* one-character strings.  A JavaScript value that may be undefined is a    *)
(* sequence of length 0 or 1.  Instants are whole hours since an epoch:     *)
(* the program changes only the hour field of a date.                       *)
(***************************************************************************)
EXTENDS Integers, Sequences, FiniteSets, TLC

\* ---------------------------------------------------------------- bounds
MaxFeeds == 2        \* feed parameters in one request
MaxFetchCalls == 3   \* upstream requests issued for one request
MaxInstant == 12     \* instants of the date strings the upstream may send

\* ------------------------------------------------------- JavaScript values
Undefined == <<>>
Def(v) == <<v>>
Val(o) == o[1]

\* Truthiness of an optional string: undefined and "" are falsy.
Truthy(o) == o # Undefined /\ Val(o) # <<>>

\* Own string keys of Object.prototype that are reachable by obj[key].
ObjectPrototypeKeys ==
  { <<"t","o","S","t","r","i","n","g">>,
    <<"c","o","n","s","t","r","u","c","t","o","r">> }

\* What such an inherited member is when used as a string.
NativeFunction == <<"f","u","n","c","t","i","o","n">>

\* obj[key] on an ordinary object: own property, else the prototype's.
Get(obj, key) ==
  IF key \in DOMAIN obj THEN Def(obj[key])
  ELSE IF key \in ObjectPrototypeKeys THEN Def(NativeFunction)
  ELSE Undefined

StartsWith(s, prefix) ==
  /\ Len(s) >= Len(prefix)
  /\ SubSeq(s, 1, Len(prefix)) = prefix

Substring(s, from) == SubSeq(s, from + 1, Len(s))

\* ------------------------------------------------------------ registry
API_KEY_PREFIX ==
  <<"A","C","T","I","O","N","_","N","E","T","W","O","R","K","_",
    "A","P","I","_","K","E","Y","_">>

TEAM_A == <<"T","E","A","M","_","A">>
TEAM_B == <<"T","E","A","M","_","B">>
PATH == <<"P","A","T","H">>
\* The prefix as the README once misspells it.
MISSPELT_PREFIX ==
  <<"A","C","T","I","O","N","N","E","T","W","O","R","K","_",
    "A","P","I","_","K","E","Y","_">>

KeyA == <<"k","A">>
KeyB == <<"k","B">>

\* The environments the process may be started in: both feeds configured;
\* TEAM_B under the misspelt name; TEAM_B with an empty value.
Environments ==
  { (API_KEY_PREFIX \o TEAM_A :> KeyA) @@ (API_KEY_PREFIX \o TEAM_B :> KeyB)
      @@ (PATH :> <<"/">>),
    (API_KEY_PREFIX \o TEAM_A :> KeyA) @@ (MISSPELT_PREFIX \o TEAM_B :> KeyB)
      @@ (PATH :> <<"/">>),
    (API_KEY_PREFIX \o TEAM_A :> KeyA) @@ (API_KEY_PREFIX \o TEAM_B :> <<>>)
      @@ (PATH :> <<"/">>) }

\* Object.fromEntries(Object.entries(env).filter(...).map(...))
BuildApiKeys(env) ==
  LET kept == { key \in DOMAIN env : StartsWith(key, API_KEY_PREFIX) }
      ids == { Substring(key, Len(API_KEY_PREFIX)) : key \in kept }
  IN [ id \in ids |-> env[API_KEY_PREFIX \o id] ]

\* ------------------------------------------------------------- dates
\* A date-time string: a wall-clock reading with the UTC offset it names
\* (off = 0 is the designator "Z").
DateString(wall, off) == [wall |-> wall, off |-> off]

\* new Date(string): the instant the string denotes.
ParseDate(s) == s.wall - s.off

\* Date.prototype.toISOString: always the "Z" form.
ToISOString(t) == DateString(t, 0)

\* A time zone with one offset change: offset `before` up to instant `at`,
\* offset `after` from `at` on.
UTCZone == [before |-> 0, after |-> 0, at |-> 0]
SpringForwardZone == [before |-> -5, after |-> -4, at |-> 7]
FallBackZone == [before |-> -4, after |-> -5, at |-> 6]
TimeZones == { UTCZone, SpringForwardZone, FallBackZone }

HoursPerDay == 24

\* ECMAScript LocalTime(t).
LocalTime(tz, t) == t + (IF t < tz.at THEN tz.before ELSE tz.after)

\* ECMAScript UTC(tlocal): a repeated or skipped local time is read with
\* the offset in force before the transition.
UTCTime(tz, tlocal) ==
  IF tlocal - tz.before < tz.at THEN tlocal - tz.before
  ELSE IF tlocal - tz.after >= tz.at THEN tlocal - tz.after
  ELSE tlocal - tz.before

\* Date.prototype.getHours: the hour field of the local time.
GetHours(tz, t) == LocalTime(tz, t) % HoursPerDay

\* Date.prototype.setHours(hour): replaces the hour field of the local
\* time (hours past 23 carry into the day) and converts back.
SetHours(tz, t, hour) ==
  UTCTime(tz, (LocalTime(tz, t) \div HoursPerDay) * HoursPerDay + hour)

DefaultDurationHours == 2

\* ------------------------------------------------------------ events
Venue(v) == Def([venue |-> v])

Rally ==
  [ title |-> "Rally", description |-> "Bring signs",
    start_date |-> DateString(6, 0), end_date |-> Undefined,
    location |-> Venue("Town Hall") ]
Canvass ==
  [ title |-> "Canvass", description |-> "Door to door",
    start_date |-> DateString(3, 0), end_date |-> Def(DateString(5, 0)),
    location |-> Venue("Library") ]
Webinar ==
  [ title |-> "Webinar", description |-> "Online",
    start_date |-> DateString(4, 0), end_date |-> Def(DateString(5, 0)),
    location |-> Undefined ]

\* The event batches one upstream page may carry.
Batches == { <<Rally>>, <<Canvass, Rally>>, <<Webinar>> }

\* The repair without its test: the end is always derived from the start.
RepairedEndDateAlways(tz, event) ==
  LET startDate == ParseDate(event.start_date)
  IN Def(ToISOString(
       SetHours(tz, startDate, GetHours(tz, startDate) + DefaultDurationHours)))

\* The body of lines 140-155 for one event: the end_date the event has
\* after the repair.
RepairedEndDate(tz, event) ==
  IF event.end_date = Undefined
  THEN LET startDate == ParseDate(event.start_date)
       IN Def(ToISOString(
            SetHours(tz, startDate, GetHours(tz, startDate) + DefaultDurationHours)))
  ELSE event.end_date

\* event.location.venue throws when the event has no location.
EventThrows(event) == event.location = Undefined

\* The argument of calendar.createEvent.
CreateEventArg(tz, event) ==
  [ start |-> ParseDate(event.start_date),
    end |-> ParseDate(Val(RepairedEndDate(tz, event))),
    summary |-> event.title,
    description |-> event.description,
    location |-> Val(event.location).venue ]

\* ------------------------------------------------------- calendar name
LowerLetters ==
  <<"a","b","c","d","e","f","g","h","i","j","k","l","m",
    "n","o","p","q","r","s","t","u","v","w","x","y","z">>
UpperLetters ==
  <<"A","B","C","D","E","F","G","H","I","J","K","L","M",
    "N","O","P","Q","R","S","T","U","V","W","X","Y","Z">>

Translate(c, from, to) ==
  IF \E i \in 1..Len(from) : from[i] = c
  THEN to[CHOOSE i \in 1..Len(from) : from[i] = c]
  ELSE c

\* String.prototype.toUpperCase / toLowerCase.
ToUpperCase(s) == [i \in 1..Len(s) |-> Translate(s[i], LowerLetters, UpperLetters)]
ToLowerCase(s) == [i \in 1..Len(s) |-> Translate(s[i], UpperLetters, LowerLetters)]

\* Array.prototype.join.
RECURSIVE Join(_, _)
Join(words, sep) ==
  IF words = <<>> THEN <<>>
  ELSE IF Len(words) = 1 THEN words[1]
  ELSE words[1] \o sep \o Join(Tail(words), sep)

\* String.prototype.split on a one-character separator.
RECURSIVE Split(_, _)
Split(s, sep) ==
  IF \A i \in 1..Len(s) : s[i] # sep THEN <<s>>
  ELSE LET i == CHOOSE k \in 1..Len(s) :
                  s[k] = sep /\ \A j \in 1..(k - 1) : s[j] # sep
       IN <<SubSeq(s, 1, i - 1)>> \o Split(SubSeq(s, i + 1, Len(s)), sep)

\* The mapping without its toLowerCase: the rest of the word kept as it is.
TitleCaseKeepRest(word) ==
  ToUpperCase(SubSeq(word, 1, 1)) \o SubSeq(word, 2, Len(word))

\* word.charAt(0).toUpperCase() + word.slice(1).toLowerCase()
TitleCase(word) ==
  ToUpperCase(SubSeq(word, 1, 1)) \o ToLowerCase(SubSeq(word, 2, Len(word)))

EventsFor == <<"E","v","e","n","t","s"," ","f","o","r"," ">>

\* The name without the override: always derived from the feeds.
CalendarNameDerived(calendarNames, overrideCalendarName) ==
  LET words == Split(Join(calendarNames, <<" ">>), " ")
  IN EventsFor \o Join([i \in 1..Len(words) |-> TitleCase(words[i])], <<" ">>)

\* Lines 128-136.
CalendarName(calendarNames, overrideCalendarName) ==
  IF Truthy(overrideCalendarName)
  THEN Val(overrideCalendarName)
  ELSE LET words == Split(Join(calendarNames, <<" ">>), " ")
       IN EventsFor \o Join([i \in 1..Len(words) |-> TitleCase(words[i])], <<" ">>)

\* ------------------------------------------------------------ upstream
ListingEndpoint == "https://actionnetwork.org/api/v2/events"
NextLinks == { "https://actionnetwork.org/api/v2/events?page=2" }

OkStatus == 200
ServerErrorStatus == 500
Statuses == { OkStatus, ServerErrorStatus }

\* A response body: not JSON at all, or a JSON object whose _embedded
\* member (the batch) and _links member may each be missing.
NotJson == [json |-> FALSE, embedded |-> Undefined, links |-> Undefined]
JsonBody(embedded, links) == [json |-> TRUE, embedded |-> embedded, links |-> links]
Links(next) == Def([next |-> next])

Page(batch, next) == JsonBody(Def(batch), Links(next))

\* What one fetch() call can come back with: a rejection (no response), or
\* a response with a status and a body.
Response(status, body) == [failed |-> FALSE, status |-> status, body |-> body]
NetworkError == [failed |-> TRUE, status |-> 0, body |-> NotJson]

\* The upstream's answers: well-formed pages with and without a next link,
\* an HTML error page, a JSON error object, a page without _links, and
\* server errors whose body is a JSON error object or a page.
Responses ==
  { NetworkError,
    Response(OkStatus, NotJson),
    Response(OkStatus, JsonBody(Def(<<Rally>>), Undefined)),
    Response(ServerErrorStatus, JsonBody(Undefined, Undefined)),
    Response(ServerErrorStatus, Page(<<Rally>>, Undefined)) }
  \cup { Response(OkStatus, Page(b, Undefined)) : b \in Batches }
  \cup { Response(OkStatus, Page(b, Def(h))) : b \in Batches, h \in NextLinks }

\* The target of one fetch call: `${url}?${queryParams}`.
Target(url) == [url |-> url, query |-> "filter=start_date gt now"]

\* --------------------------------------------------------------- state
VARIABLES
  API_KEYS,      \* the registry built at start-up
  feeds,         \* c.req.queries("feed") of the request being served
  nameOverride,  \* c.req.query("name") of the request being served
  handler,       \* "idle", "awaiting" (at await generateICalForFeeds) or "responded"
  tasks,         \* one fetchAllEventsForCalendar call per supplied feed
  settled,       \* the tasks that returned or threw, in the order they did
  response       \* the response sent for the request, once there is one

vars == <<API_KEYS, feeds, nameOverride, handler, tasks, settled, response>>

\* --------------------------------------------------- request parameters
ToStringKey == <<"t","o","S","t","r","i","n","g">>
FeedParams == { TEAM_A, TEAM_B, ToStringKey }

RECURSIVE SeqsUpTo(_, _)
SeqsUpTo(S, n) ==
  IF n = 0 THEN { <<>> }
  ELSE LET shorter == SeqsUpTo(S, n - 1)
       IN shorter \cup { Append(q, x) : q \in shorter, x \in S }

\* c.req.queries("feed"): undefined without a feed parameter, else the
\* values in the order they were given.
FeedQueries ==
  { Undefined } \cup { Def(q) : q \in SeqsUpTo(FeedParams, MaxFeeds) \ { <<>> } }

MyCalendar == <<"M","y"," ","C","a","l","e","n","d","a","r">>
NameQueries == { Undefined, Def(<<>>), Def(MyCalendar) }

\* ------------------------------------------------------------ responses
TextResponse(status, message, subject) ==
  [ status |-> status, contentType |-> "text/plain", disposition |-> "",
    message |-> message, subject |-> subject, calendar |-> Undefined ]

\* The message sent without its status argument: c.text defaults to 200.
NoFeedResponseDefaultStatus ==
  TextResponse(200, "No feed query parameters provided.", Undefined)

\* Line 92.
NoFeedResponse ==
  TextResponse(400, "No feed query parameters provided.", Undefined)

\* Line 97.
UnknownFeedResponse(feed) ==
  TextResponse(400, "Feed ${feed} is not configured in API keys.", Def(feed))

\* What Hono answers when the handler throws.
InternalErrorResponse ==
  TextResponse(500, "Internal Server Error", Undefined)

\* Lines 103-105.
CalendarResponse(calendar) ==
  [ status |-> 200, contentType |-> "text/calendar",
    disposition |-> "attachment; filename=events.ics",
    message |-> "", subject |-> Undefined, calendar |-> Def(calendar) ]

\* ------------------------------------------------------------ /directory
\* The key as it is: no list marker.
DirectoryLineBare(key) == key

\* Line 78: `- ${key}`.
DirectoryLine(key) == <<"-", " ">> \o key

\* Every line ended by a line feed instead of the lines joined by one.
DirectoryTextTerminated(keys) ==
  Join([k \in 1..Len(keys) |-> DirectoryLine(keys[k]) \o <<"\n">>], <<>>)

\* Lines 77-79 for Object.keys(API_KEYS) = keys.
DirectoryText(keys) ==
  Join([k \in 1..Len(keys) |-> DirectoryLine(keys[k])], <<"\n">>)

\* Object.keys(obj): the own keys, in the order they were inserted in.
ObjectKeys(obj) ==
  { keys \in [1..Cardinality(DOMAIN obj) -> DOMAIN obj] :
      \A i, j \in DOMAIN keys : i # j => keys[i] # keys[j] }

\* c.text(text): status 200, text/plain.
DirectoryResponse(keys) == TextResponse(200, DirectoryText(keys), Undefined)

\* -------------------------------------------------- fetchAllEventsForCalendar
\* The call sending the request for a second page along with the first.
StartFetchAhead(calendarName) ==
  [ calendarName |-> calendarName,
    token |-> Get(API_KEYS, calendarName),
    url |-> ListingEndpoint,
    hasNextPage |-> TRUE,
    events |-> <<>>,
    sent |-> <<Target(ListingEndpoint), Target(ListingEndpoint)>>,
    pages |-> <<>>,
    state |-> "awaitFetch",
    returned |-> Undefined ]

\* Lines 170-182: the call up to its first await, the first request sent.
StartFetch(calendarName) ==
  [ calendarName |-> calendarName,
    token |-> Get(API_KEYS, calendarName),
    url |-> ListingEndpoint,
    hasNextPage |-> TRUE,
    events |-> <<>>,
    sent |-> <<Target(ListingEndpoint)>>,
    pages |-> <<>>,
    state |-> "awaitFetch",
    returned |-> Undefined ]

\* An assignment in place of the push: the last batch replaces the rest.
PushOverwrite(events, batch) == batch

\* events.push(...batch)
Push(events, batch) == events \o batch

Throw(task) == [task EXCEPT !.state = "rejected"]

\* The loop with a cap on its pages: it returns after the second page
\* whether or not that page links to a next one.
FetchStepCapped(task, resp) ==
  LET t == [task EXCEPT !.pages = Append(@, resp)] IN
  IF resp.failed THEN Throw(t)
  ELSE IF ~resp.body.json THEN Throw(t)
  ELSE IF resp.body.embedded = Undefined THEN Throw(t)
  ELSE
    LET pushed == [t EXCEPT !.events = Push(@, Val(resp.body.embedded))] IN
    IF resp.body.links = Undefined THEN Throw(pushed)
    ELSE IF Val(resp.body.links).next # Undefined /\ Len(t.pages) < 2
    THEN LET href == Val(Val(resp.body.links).next)
         IN [pushed EXCEPT !.url = href, !.sent = Append(@, Target(href))]
    ELSE [pushed EXCEPT !.hasNextPage = FALSE,
                        !.state = "fulfilled",
                        !.returned = Def(pushed.events)]

\* Lines 182-201: from the arrival of a response to the next await or to
\* the end of the call.
FetchStep(task, resp) ==
  LET t == [task EXCEPT !.pages = Append(@, resp)] IN
  IF resp.failed THEN Throw(t)
  ELSE IF ~resp.body.json THEN Throw(t)
  ELSE IF resp.body.embedded = Undefined THEN Throw(t)
  ELSE
    LET pushed == [t EXCEPT !.events = Push(@, Val(resp.body.embedded))] IN
    IF resp.body.links = Undefined THEN Throw(pushed)
    ELSE IF Val(resp.body.links).next # Undefined
    THEN LET href == Val(Val(resp.body.links).next)
         IN [pushed EXCEPT !.url = href, !.sent = Append(@, Target(href))]
    ELSE [pushed EXCEPT !.hasNextPage = FALSE,
                        !.state = "fulfilled",
                        !.returned = Def(pushed.events)]

\* ------------------------------------------------------ generateICalForFeeds
\* The results in the order the tasks completed in; the task that completes
\* last is the one not yet in `settled`.
AllEventsInCompletionOrder(ts) ==
  LET last == CHOOSE i \in 1..Len(ts) : \A k \in 1..Len(settled) : settled[k] # i
      order == Append(settled, last)
  IN [k \in 1..Len(ts) |-> Val(ts[order[k]].returned)]

\* The value Promise.all resolves to: the tasks' results by position.
AllEvents(ts) == [i \in 1..Len(ts) |-> Val(ts[i].returned)]

\* Array.prototype.flat.
RECURSIVE Flat(_)
Flat(arrays) ==
  IF arrays = <<>> THEN <<>> ELSE Head(arrays) \o Flat(Tail(arrays))

\* A sequence without the repetitions of its elements.
RECURSIVE Distinct(_)
Distinct(seq) ==
  IF seq = <<>> THEN <<>>
  ELSE LET front == Distinct(SubSeq(seq, 1, Len(seq) - 1))
           last == seq[Len(seq)]
       IN IF \E k \in 1..Len(front) : front[k] = last
          THEN front ELSE Append(front, last)

\* The calendar with one entry per distinct event.
GenerateDistinct(ts, calendarNames, overrideCalendarName, tz) ==
  LET flattened == Distinct(Flat(AllEvents(ts)))
      name == CalendarName(calendarNames, overrideCalendarName)
  IN IF \E k \in 1..Len(flattened) : EventThrows(flattened[k])
     THEN Undefined
     ELSE Def([ name |-> name,
                events |-> [k \in 1..Len(flattened) |->
                              CreateEventArg(tz, flattened[k])] ])

\* Lines 126-157, run once Promise.all has resolved: the calendar, unless
\* the forEach throws.  tz is the time zone the process runs in, which the
\* program reads nowhere else.
Generate(ts, calendarNames, overrideCalendarName, tz) ==
  LET flattened == Flat(AllEvents(ts))
      name == CalendarName(calendarNames, overrideCalendarName)
  IN IF \E k \in 1..Len(flattened) : EventThrows(flattened[k])
     THEN Undefined
     ELSE Def([ name |-> name,
                events |-> [k \in 1..Len(flattened) |->
                              CreateEventArg(tz, flattened[k])] ])

\* ------------------------------------------------------------- the handler
\* Lines 95-99: the first feed the loop rejects, if any.
Rejected(feed) == ~Truthy(Get(API_KEYS, feed))

FirstRejected(fs) ==
  IF \E i \in 1..Len(fs) : Rejected(fs[i])
  THEN Def(fs[CHOOSE i \in 1..Len(fs) :
                 Rejected(fs[i]) /\ \A j \in 1..(i - 1) : ~Rejected(fs[j])])
  ELSE Undefined

FetchCalls == LET n[i \in 0..Len(tasks)] ==
                    IF i = 0 THEN 0 ELSE n[i - 1] + Len(tasks[i].sent)
              IN n[Len(tasks)]

Init ==
  /\ API_KEYS \in { BuildApiKeys(env) : env \in Environments }
  /\ feeds = Undefined
  /\ nameOverride = Undefined
  /\ handler = "idle"
  /\ tasks = <<>>
  /\ settled = <<>>
  /\ response = Undefined

\* GET /events, lines 88-101 and 118-124 and 170-182: the handler up to
\* its first await.  Requests share no state, so one request is followed.
EventsRequest(feedQuery, nameQuery) ==
  /\ handler = "idle"
  /\ feeds' = feedQuery
  /\ nameOverride' = nameQuery
  /\ settled' = <<>>
  /\ IF feedQuery = Undefined
     THEN /\ response' = Def(NoFeedResponse)
          /\ handler' = "responded"
          /\ tasks' = <<>>
     ELSE IF FirstRejected(Val(feedQuery)) # Undefined
     THEN /\ response' = Def(UnknownFeedResponse(Val(FirstRejected(Val(feedQuery)))))
          /\ handler' = "responded"
          /\ tasks' = <<>>
     ELSE /\ response' = Undefined
          /\ handler' = "awaiting"
          /\ tasks' = [i \in 1..Len(Val(feedQuery)) |-> StartFetch(Val(feedQuery)[i])]
  /\ UNCHANGED API_KEYS

\* Promise.allSettled in place of Promise.all: the failed feeds are left
\* out and the calendar is built from the others.
SettleAllSettled(ts, tz) ==
  IF handler # "awaiting" THEN <<handler, response>>
  ELSE IF \A i \in 1..Len(ts) : ts[i].state # "awaitFetch"
  THEN LET fulfilled(t) == t.state = "fulfilled"
           calendar == Generate(SelectSeq(ts, fulfilled), Val(feeds), nameOverride, tz)
       IN IF calendar = Undefined
          THEN <<"responded", Def(InternalErrorResponse)>>
          ELSE <<"responded", Def(CalendarResponse(Val(calendar)))>>
  ELSE <<handler, response>>

\* The handler waiting for every task before it reports a failure.
SettleAfterAll(ts, tz) ==
  IF handler # "awaiting" THEN <<handler, response>>
  ELSE IF \E i \in 1..Len(ts) : ts[i].state = "awaitFetch"
  THEN <<handler, response>>
  ELSE IF \E i \in 1..Len(ts) : ts[i].state = "rejected"
  THEN <<"responded", Def(InternalErrorResponse)>>
  ELSE LET calendar == Generate(ts, Val(feeds), nameOverride, tz)
       IN IF calendar = Undefined
          THEN <<"responded", Def(InternalErrorResponse)>>
          ELSE <<"responded", Def(CalendarResponse(Val(calendar)))>>

\* The reaction of Promise.all and of the handler to a task's step.
Settle(ts, tz) ==
  IF handler # "awaiting" THEN <<handler, response>>
  ELSE IF \E i \in 1..Len(ts) : ts[i].state = "rejected"
  THEN <<"responded", Def(InternalErrorResponse)>>
  ELSE IF \A i \in 1..Len(ts) : ts[i].state = "fulfilled"
  THEN LET calendar == Generate(ts, Val(feeds), nameOverride, tz)
       IN IF calendar = Undefined
          THEN <<"responded", Def(InternalErrorResponse)>>
          ELSE <<"responded", Def(CalendarResponse(Val(calendar)))>>
  ELSE <<handler, response>>

\* The time zones that make a difference to a step: every one when the step
\* generates the calendar, and otherwise, the zone not being read, only one.
ZonesRead(ts) ==
  IF handler = "awaiting" /\ \A j \in 1..Len(ts) : ts[j].state = "fulfilled"
  THEN TimeZones
  ELSE { UTCZone }

\* The upstream's answer to the outstanding request of task i arrives, the
\* process running in time zone tz.
PageResponse(i, resp, tz) ==
  /\ i \in 1..Len(tasks)
  /\ tasks[i].state = "awaitFetch"
  /\ LET t == FetchStep(tasks[i], resp)
         ts == [tasks EXCEPT ![i] = t]
     IN /\ tz \in ZonesRead(ts)
        /\ Len(t.sent) > Len(tasks[i].sent) => FetchCalls < MaxFetchCalls
        /\ tasks' = ts
        /\ settled' = IF t.state = "awaitFetch" THEN settled ELSE Append(settled, i)
        /\ LET reaction == Settle(ts, tz)
           IN handler' = reaction[1] /\ response' = reaction[2]
  /\ UNCHANGED <<API_KEYS, feeds, nameOverride>>

Next ==
  \/ \E feedQuery \in FeedQueries, nameQuery \in NameQueries :
       EventsRequest(feedQuery, nameQuery)
  \/ \E i \in 1..MaxFeeds, resp \in Responses, tz \in TimeZones :
       PageResponse(i, resp, tz)

Spec == Init /\ [][Next]_vars

\* ------------------------------------------- the normalization, widely fed
\* Every date string the upstream may send within the bound, with the "Z"
\* designator or with "+01:00".
DateStrings == { DateString(w, off) : w \in 0..MaxInstant, off \in {0, 1} }

\* One event per start and end the upstream can send.
TimedEvents ==
  { [ title |-> "Rally", description |-> "Bring signs",
      start_date |-> s, end_date |-> e, location |-> Venue("Town Hall") ] :
    s \in DateStrings, e \in { Undefined } \cup { Def(d) : d \in DateStrings } }

\* A single page that carries one of these events.
TimedResponses ==
  { Response(OkStatus, Page(<<event>>, Undefined)) : event \in TimedEvents }

\* The handler serving one request for TEAM_A, the upstream answering with
\* one such page.
NormalizeNext ==
  \/ EventsRequest(Def(<<TEAM_A>>), Undefined)
  \/ \E resp \in TimedResponses, tz \in TimeZones : PageResponse(1, resp, tz)

NormalizeSpec == Init /\ [][NormalizeNext]_vars

\* ------------------------------------------------ the calendar name, widely fed
\* A feed whose identifier holds a space and mixed case.
NorthWest == <<"n","O","r","t","h"," ","w","E","S","T">>
NameFeedParams == { TEAM_A, TEAM_B, NorthWest }

\* An environment that configures the three feeds.
NameEnvironment ==
  (API_KEY_PREFIX \o TEAM_A :> KeyA) @@ (API_KEY_PREFIX \o TEAM_B :> KeyB)
    @@ (API_KEY_PREFIX \o NorthWest :> KeyA) @@ (PATH :> <<"/">>)

NameFeedQueries ==
  { Undefined } \cup { Def(q) : q \in SeqsUpTo(NameFeedParams, MaxFeeds) \ { <<>> } }

\* c.req.query("name"): absent, empty, and names that title-casing would
\* and would not change.
LowerCaseName == <<"m","y"," ","c","a","l">>
OverrideQueries == NameQueries \cup { Def(LowerCaseName), Def(TEAM_A) }

\* Every feed answered with one last page.
LastPages == { Response(OkStatus, Page(<<Rally>>, Undefined)) }

NameInit ==
  /\ API_KEYS = BuildApiKeys(NameEnvironment)
  /\ feeds = Undefined
  /\ nameOverride = Undefined
  /\ handler = "idle"
  /\ tasks = <<>>
  /\ settled = <<>>
  /\ response = Undefined

NameNext ==
  \/ \E feedQuery \in NameFeedQueries, nameQuery \in OverrideQueries :
       EventsRequest(feedQuery, nameQuery)
  \/ \E i \in 1..MaxFeeds, resp \in LastPages : PageResponse(i, resp, UTCZone)

NameSpec == NameInit /\ [][NameNext]_vars

\* ----------------------------------------------- events with members missing
\* What reading a missing string member gives: a value no string equals.
NoString == "undefined"

\* Events whose title, description, location or venue may be missing.
FieldEvents ==
  { [ title |-> t, description |-> d,
      start_date |-> DateString(6, 0), end_date |-> Undefined, location |-> l ] :
    t \in { "Rally", NoString }, d \in { "Bring signs", NoString },
    l \in { Undefined, Venue("Town Hall"), Venue(NoString) } }

\* A last page that carries one or two of these events.
FieldResponses ==
  { Response(OkStatus, Page(<<e>>, Undefined)) : e \in FieldEvents }
  \cup { Response(OkStatus, Page(<<e, f>>, Undefined)) : e, f \in FieldEvents }

\* The handler serving one request for TEAM_A, the upstream answering with
\* one such page.
FieldsNext ==
  \/ EventsRequest(Def(<<TEAM_A>>), Undefined)
  \/ \E resp \in FieldResponses : PageResponse(1, resp, UTCZone)

FieldsSpec == Init /\ [][FieldsNext]_vars

\* ------------------------------------------------------- the directory served
\* GET /directory, lines 75-81.
DirectoryRequest(keys) ==
  /\ handler = "idle"
  /\ keys \in ObjectKeys(API_KEYS)
  /\ response' = Def(DirectoryResponse(keys))
  /\ handler' = "responded"
  /\ UNCHANGED <<API_KEYS, feeds, nameOverride, tasks, settled>>

\* Names an environment variable may have: three with the prefix (one of
\* them nothing but the prefix) and two without.
DirectoryEnvNames ==
  { API_KEY_PREFIX \o TEAM_A, API_KEY_PREFIX \o TEAM_B, API_KEY_PREFIX,
    MISSPELT_PREFIX \o TEAM_B, PATH }
DirectoryEnvValues == { KeyA, KeyB, <<>> }

\* Every environment over these names, the empty one included.
DirectoryEnvironments ==
  UNION { [names -> DirectoryEnvValues] : names \in SUBSET DirectoryEnvNames }

DirectoryInit ==
  /\ API_KEYS \in { BuildApiKeys(env) : env \in DirectoryEnvironments }
  /\ feeds = Undefined
  /\ nameOverride = Undefined
  /\ handler = "idle"
  /\ tasks = <<>>
  /\ settled = <<>>
  /\ response = Undefined

\* The identifiers these environments can configure, and every order
\* Object.keys can list some of them in.
DirectoryIds ==
  { Substring(name, Len(API_KEY_PREFIX)) :
      name \in { n \in DirectoryEnvNames : StartsWith(n, API_KEY_PREFIX) } }
DirectoryKeyOrders == SeqsUpTo(DirectoryIds, Cardinality(DirectoryIds))

DirectoryNext == \E keys \in DirectoryKeyOrders : DirectoryRequest(keys)

DirectorySpec == DirectoryInit /\ [][DirectoryNext]_vars

\* ------------------------------------------------------- what is checked
Responded == response # Undefined
Status == Val(response).status
Served == Responded /\ Status = 200
Calendar == Val(Val(response).calendar)
Supplied == Val(feeds)

\* The raw events the tasks returned, laid out feed after feed.
ReturnedEvents == Flat([i \in 1..Len(tasks) |-> Val(tasks[i].returned)])

\* A response that is not a success, or whose payload is not a page.
NonSuccess(resp) == resp.failed \/ resp.status # OkStatus
Malformed(resp) ==
  ~resp.body.json \/ resp.body.embedded = Undefined \/ resp.body.links = Undefined

\* The number of events in the first k pages a task consumed.
RECURSIVE EventsBefore(_, _)
EventsBefore(pages, k) ==
  IF k <= 1 THEN 0
  ELSE EventsBefore(pages, k - 1) + Len(Val(pages[k - 1].body.embedded))

\* The number of events the first i - 1 tasks returned.
RECURSIVE ReturnedBefore(_)
ReturnedBefore(i) ==
  IF i <= 1 THEN 0 ELSE ReturnedBefore(i - 1) + Len(Val(tasks[i - 1].returned))

\* C1: a request whose selection holds an identifier absent from the
\* registry is rejected with a client error naming an absent identifier of
\* the selection, and no upstream request is issued for it.
C1_UnknownFeedRejectedBeforeFetch ==
  (feeds # Undefined /\ \E i \in 1..Len(Supplied) : Supplied[i] \notin DOMAIN API_KEYS)
    => /\ FetchCalls = 0
       /\ Responded
       /\ Status = 400
       /\ Val(response).subject # Undefined
       /\ Val(Val(response).subject) \notin DOMAIN API_KEYS
       /\ \E i \in 1..Len(Supplied) : Supplied[i] = Val(Val(response).subject)

\* C2: a non-empty selection of identifiers that are all in the registry is
\* not rejected, and a fetch is started for every supplied identifier.
C2_KnownFeedsAllFetched ==
  (feeds # Undefined /\ \A i \in 1..Len(Supplied) : Supplied[i] \in DOMAIN API_KEYS)
    => /\ Responded => Status # 400
       /\ Len(tasks) = Len(Supplied)
       /\ \A i \in 1..Len(tasks) :
            tasks[i].calendarName = Supplied[i] /\ Len(tasks[i].sent) >= 1

C4_PagesConcatenated ==
  \A i \in 1..Len(tasks) :
    tasks[i].state = "fulfilled" =>
      LET pages == tasks[i].pages
          n == Len(pages)
          out == Val(tasks[i].returned)
      IN /\ n >= 1
         /\ Len(tasks[i].sent) = n
         /\ \A k \in 1..n :
              (Val(pages[k].body.links).next # Undefined) <=> (k < n)
         /\ Len(out) = EventsBefore(pages, n + 1)
         /\ \A k \in 1..n :
              \A j \in 1..Len(Val(pages[k].body.embedded)) :
                out[EventsBefore(pages, k) + j] = Val(pages[k].body.embedded)[j]

C4_Witness ==
  \E i \in 1..Len(tasks) :
    /\ tasks[i].state = "fulfilled"
    /\ Len(tasks[i].pages) = 3
    /\ tasks[i].pages[1].body.embedded # tasks[i].pages[2].body.embedded

\* C5: the entries of a served calendar are the feeds' events in the order
\* the feeds were supplied, whatever the order the fetches completed in.
C5_RequestOrderKept ==
  Served =>
    /\ Len(tasks) = Len(Supplied)
    /\ Len(Calendar.events) = ReturnedBefore(Len(tasks) + 1)
    /\ \A i \in 1..Len(tasks) :
         /\ tasks[i].calendarName = Supplied[i]
         /\ \A j \in 1..Len(Val(tasks[i].returned)) :
              LET raw == Val(tasks[i].returned)[j]
                  entry == Calendar.events[ReturnedBefore(i) + j]
              IN /\ entry.summary = raw.title
                 /\ entry.description = raw.description
                 /\ entry.start = raw.start_date.wall - raw.start_date.off

\* The second feed finished first and the two feeds returned different events.
C5_Witness ==
  /\ Served
  /\ Len(tasks) = 2
  /\ settled = <<2, 1>>
  /\ Len(Val(tasks[1].returned)) # Len(Val(tasks[2].returned))

\* C6: once the fetch of a feed has failed, no calendar is served, and a
\* served calendar holds the events of every selected feed.
C6_NoPartialCalendar ==
  /\ (\E i \in 1..Len(tasks) : tasks[i].state = "rejected")
       => (Responded => Status # 200 /\ Val(response).calendar = Undefined)
  /\ Served =>
       /\ \A i \in 1..Len(tasks) : tasks[i].state = "fulfilled"
       /\ Len(Calendar.events) = ReturnedBefore(Len(tasks) + 1)

\* One feed failed after the other had returned its events.
C6_Witness ==
  /\ Len(tasks) = 2
  /\ \E i, j \in 1..2 :
       /\ tasks[i].state = "rejected"
       /\ tasks[j].state = "fulfilled"
       /\ Val(tasks[j].returned) # <<>>
       /\ settled = <<j, i>>
  /\ Responded /\ Status = 500

\* C7: a fetch that received a non-success response or a malformed payload
\* returns no event sequence.
C7_BadResponseAborts ==
  \A i \in 1..Len(tasks) :
    (\E k \in 1..Len(tasks[i].pages) :
        NonSuccess(tasks[i].pages[k]) \/ Malformed(tasks[i].pages[k]))
      => tasks[i].state # "fulfilled" /\ tasks[i].returned = Undefined

\* C8: an entry made from an event without end time ends exactly two hours
\* after it starts.
C8_MissingEndIsStartPlusTwoHours ==
  Served =>
    \A k \in 1..Len(Calendar.events) :
      ReturnedEvents[k].end_date = Undefined
        => Calendar.events[k].end = Calendar.events[k].start + 2

\* C9: an entry made from an event with an end time ends at the instant
\* that end time denotes.
C9_PresentEndKept ==
  Served =>
    \A k \in 1..Len(Calendar.events) :
      ReturnedEvents[k].end_date # Undefined
        => Calendar.events[k].end =
             Val(ReturnedEvents[k].end_date).wall - Val(ReturnedEvents[k].end_date).off

\* An end time before the start, written with an offset designator.
C9_Witness ==
  /\ Served
  /\ Len(Calendar.events) = 1
  /\ ReturnedEvents[1].end_date # Undefined
  /\ Val(ReturnedEvents[1].end_date).off = 1
  /\ Calendar.events[1].end < Calendar.events[1].start

\* C10: every entry of a served calendar ends strictly after it starts.
C10_EndAfterStart ==
  Served =>
    \A k \in 1..Len(Calendar.events) :
      Calendar.events[k].end > Calendar.events[k].start

\* C11 as stated: whenever the request carries a name parameter, the served
\* calendar's name is that parameter's value, whatever the value and the feeds.
C11_OverrideNameVerbatim ==
  (Served /\ nameOverride # Undefined) => Calendar.name = Val(nameOverride)

\* C11 as amended: whenever the request carries a non-empty name parameter,
\* the served calendar's name is that value, character for character,
\* whichever and however many feeds were selected.
C11_NonEmptyOverrideNameVerbatim ==
  (Served /\ nameOverride # Undefined /\ Val(nameOverride) # <<>>)
    => /\ Len(Calendar.name) = Len(Val(nameOverride))
       /\ \A p \in 1..Len(Calendar.name) : Calendar.name[p] = Val(nameOverride)[p]

\* A lower-case override served for two feeds.
C11_Witness ==
  /\ Served
  /\ Len(Supplied) = 2
  /\ nameOverride = Def(LowerCaseName)
  /\ Calendar.name = LowerCaseName

\* C12: without a name parameter the served calendar's name is "Events for "
\* followed by the supplied identifiers joined by single spaces, in which
\* every character that starts a space-separated token is upper-cased, every
\* other character is lower-cased and the spaces stay where they are; the
\* selection TEAM_A, TEAM_B gives "Events for Team_a Team_b".
C12_DerivedName ==
  (Served /\ nameOverride = Undefined) =>
    LET joined == Join(Supplied, <<" ">>)
        prefix == <<"E","v","e","n","t","s"," ","f","o","r"," ">>
        name == Calendar.name
    IN /\ Len(name) = Len(prefix) + Len(joined)
       /\ \A p \in 1..Len(prefix) : name[p] = prefix[p]
       /\ \A p \in 1..Len(joined) :
            name[Len(prefix) + p] =
              IF joined[p] = " " THEN " "
              ELSE IF p = 1 \/ joined[p - 1] = " "
              THEN Translate(joined[p], LowerLetters, UpperLetters)
              ELSE Translate(joined[p], UpperLetters, LowerLetters)
       /\ Supplied = <<TEAM_A, TEAM_B>> =>
            name = <<"E","v","e","n","t","s"," ","f","o","r"," ",
                     "T","e","a","m","_","a"," ","T","e","a","m","_","b">>

\* A name derived from an identifier that holds a space and from TEAM_A.
C12_Witness ==
  /\ Served
  /\ nameOverride = Undefined
  /\ Supplied = <<NorthWest, TEAM_A>>
  /\ Calendar.name = <<"E","v","e","n","t","s"," ","f","o","r"," ",
                       "N","o","r","t","h"," ","W","e","s","t"," ",
                       "T","e","a","m","_","a">>

\* The directory's answer and its lines: an empty text has no line, any
\* other text one line more than it has line feeds.
DirectoryServed ==
  Responded /\ Status = 200 /\ Val(response).contentType = "text/plain"
DirectoryLines ==
  IF Val(response).message = <<>> THEN <<>> ELSE Split(Val(response).message, "\n")

\* The identifier a line lists: what follows the list marker, if it has one.
Listed(line) ==
  IF Len(line) >= 2 /\ line[1] = "-" /\ line[2] = " "
  THEN SubSeq(line, 3, Len(line)) ELSE line

\* C13: the directory has as many lines as the registry has identifiers,
\* none of them blank, and the identifiers its lines list are exactly the
\* registry's identifiers.
C13_DirectoryOneLinePerFeed ==
  DirectoryServed =>
    /\ Len(DirectoryLines) = Cardinality(DOMAIN API_KEYS)
    /\ \A k \in 1..Len(DirectoryLines) : DirectoryLines[k] # <<>>
    /\ { Listed(DirectoryLines[k]) : k \in 1..Len(DirectoryLines) } = DOMAIN API_KEYS

\* Three identifiers listed, one of them empty and one with an empty token.
C13_Witness ==
  /\ DirectoryServed
  /\ Len(DirectoryLines) = 3
  /\ DOMAIN API_KEYS = { <<>>, TEAM_A, TEAM_B }
  /\ API_KEYS[TEAM_B] = <<>>

\* C14 as stated: every line of the directory is exactly an identifier of
\* the registry, with nothing added.
C14_LineIsIdentifier ==
  DirectoryServed =>
    \A k \in 1..Len(DirectoryLines) : DirectoryLines[k] \in DOMAIN API_KEYS

\* C14 as amended: every line of the directory is the list marker "- "
\* followed by exactly an identifier of the registry, with nothing after it.
C14_LineIsMarkerThenIdentifier ==
  DirectoryServed =>
    \A k \in 1..Len(DirectoryLines) :
      LET line == DirectoryLines[k]
      IN /\ Len(line) >= 2
         /\ line[1] = "-"
         /\ line[2] = " "
         /\ SubSeq(line, 3, Len(line)) \in DOMAIN API_KEYS

\* The README's listing: "- TEAM_A", then "- TEAM_B".
C14_Witness ==
  /\ DirectoryServed
  /\ DirectoryLines = << <<"-"," ","T","E","A","M","_","A">>,
                        <<"-"," ","T","E","A","M","_","B">> >>

\* The tasks in a given state.
InState(st) == { i \in 1..Len(tasks) : tasks[i].state = st }

\* C15 as stated: an outcome of the aggregate, calendar or failure, is there
\* only once no fetch of the request is in progress any more.
C15_OutcomeAfterAllFetches ==
  (Responded /\ tasks # <<>>) => InState("awaitFetch") = {}

\* C15 as amended: a calendar is produced only after every fetch of the
\* request has returned; a failure is reported in the step in which the
\* first fetch fails, also while other fetches are in progress; and a fetch
\* ends in failure only on an answer of its own that it cannot consume, never
\* because of the outcome.
C15_CalendarAfterAllFailureAtFirst ==
  /\ handler = "awaiting" => InState("rejected") = {} /\ InState("awaitFetch") # {}
  /\ (Responded /\ tasks # <<>> /\ Status = 200)
       => InState("fulfilled") = 1..Len(tasks)
  /\ (Responded /\ tasks # <<>> /\ InState("awaitFetch") # {})
       => Status = 500 /\ InState("rejected") # {}
  /\ \A i \in InState("rejected") :
       LET last == tasks[i].pages[Len(tasks[i].pages)]
       IN Len(tasks[i].sent) = Len(tasks[i].pages)
            /\ (last.failed \/ Malformed(last))

\* The first feed failed, the failure was reported, and the second feed's
\* fetch went on to consume two pages and return.
C15_Witness ==
  /\ Len(tasks) = 2
  /\ settled = <<1, 2>>
  /\ tasks[1].state = "rejected"
  /\ tasks[2].state = "fulfilled"
  /\ Len(tasks[2].pages) = 2
  /\ Responded /\ Status = 500

\* C16: a fetch has at most one request outstanding, exactly one while it
\* awaits and none once it has ended, and when it awaits the answer to its
\* request N + 1 it holds the batches of the N pages before.
C16_PagesSequential ==
  \A i \in 1..Len(tasks) :
    LET outstanding == Len(tasks[i].sent) - Len(tasks[i].pages)
    IN /\ outstanding \in {0, 1}
       /\ outstanding = 1 <=> tasks[i].state = "awaitFetch"
       /\ tasks[i].state = "awaitFetch" =>
            /\ \A k \in 1..Len(tasks[i].pages) :
                 Val(tasks[i].pages[k].body.links).next # Undefined
            /\ Len(tasks[i].events) = EventsBefore(tasks[i].pages, Len(tasks[i].sent))

\* Two feeds in flight at once, the second having consumed a page that the
\* first has not yet been answered.
C16_Witness ==
  /\ Len(tasks) = 2
  /\ InState("awaitFetch") = {1, 2}
  /\ Len(tasks[1].pages) = 0
  /\ Len(tasks[2].pages) = 1
  /\ Len(tasks[2].sent) = 2
  /\ tasks[2].events # <<>>

\* Whether page k of task i links to a next page.
HasNext(i, k) == Val(tasks[i].pages[k].body.links).next # Undefined

\* C17: the first request of a fetch goes to the listing endpoint with the
\* start-date filter; the request after a page that links to a next page
\* goes to exactly the linked address, nothing appended; and after a page
\* without such a link no request follows.
C17_RequestTargetIsNextLink ==
  \A i \in 1..Len(tasks) :
    /\ tasks[i].sent[1] =
         [url |-> "https://actionnetwork.org/api/v2/events",
          query |-> "filter=start_date gt now"]
    /\ \A k \in 2..Len(tasks[i].sent) :
         /\ HasNext(i, k - 1)
         /\ tasks[i].sent[k].url = Val(Val(tasks[i].pages[k - 1].body.links).next)
         /\ tasks[i].sent[k].query = ""
    /\ tasks[i].state = "fulfilled" => Len(tasks[i].sent) = Len(tasks[i].pages)

\* The answers task i got were all pages.
WellFed(i) ==
  \A k \in 1..Len(tasks[i].pages) :
    ~tasks[i].pages[k].failed /\ ~Malformed(tasks[i].pages[k])

\* C18: a fetch that is answered with pages only has returned exactly if
\* the last page it consumed links to no next page; as long as every page
\* links to a next one, however many there were, the fetch has issued one
\* more request and awaits it, and the request is not answered unless
\* another feed fails.
C18_NoPageCap ==
  \A i \in 1..Len(tasks) :
    WellFed(i) =>
      LET n == Len(tasks[i].pages)
      IN /\ tasks[i].state \in {"awaitFetch", "fulfilled"}
         /\ tasks[i].state = "fulfilled" <=> (n >= 1 /\ ~HasNext(i, n))
         /\ (\A k \in 1..n : HasNext(i, k)) =>
              /\ tasks[i].state = "awaitFetch"
              /\ Len(tasks[i].sent) = n + 1
              /\ InState("rejected") = {} => ~Responded

\* A next link that leads to the page that carries it: two pages consumed
\* from the same address, each linking on, and a third request under way.
C18_Witness ==
  \E i \in 1..Len(tasks) :
    /\ Len(tasks[i].pages) = 2
    /\ WellFed(i)
    /\ HasNext(i, 1) /\ HasNext(i, 2)
    /\ tasks[i].sent[2].url = tasks[i].sent[3].url
    /\ tasks[i].state = "awaitFetch"
    /\ ~Responded

\* C19: a served calendar has one entry for every event the feeds returned,
\* as many entries as events, entry k carrying the title, the description
\* and the venue of the k-th event of the feeds' results laid end to end.
C19_OneEntryPerEvent ==
  Served =>
    /\ Len(Calendar.events) = Len(ReturnedEvents)
    /\ \A k \in 1..Len(ReturnedEvents) :
         /\ Calendar.events[k].summary = ReturnedEvents[k].title
         /\ Calendar.events[k].description = ReturnedEvents[k].description
         /\ Calendar.events[k].location = Val(ReturnedEvents[k].location).venue

\* The same feed listed twice, each fetch returning the same event, which
\* the calendar holds twice.
C19_Witness ==
  /\ Served
  /\ Supplied = <<TEAM_A, TEAM_A>>
  /\ Val(tasks[1].returned) = Val(tasks[2].returned)
  /\ Len(Calendar.events) = 2
  /\ Calendar.events[1] = Calendar.events[2]

\* An event that lacks its location, its venue or its title.
MissingRequired(event) ==
  \/ event.location = Undefined
  \/ Val(event.location).venue = NoString
  \/ event.title = NoString

\* C20: when a returned event lacks a required member the request is
\* answered with an error and no calendar, whichever member and whichever
\* event it is.
C20_MissingFieldIsHardError ==
  (Responded /\ tasks # <<>> /\ InState("fulfilled") = 1..Len(tasks)
     /\ \E k \in 1..Len(ReturnedEvents) : MissingRequired(ReturnedEvents[k]))
    => Status = 500 /\ Val(response).calendar = Undefined

====
